---- MODULE Spec2Model ----
(***************************************************************************)
(* Model of figgy's ConfigFile<T> (src/src/lib.rs): the builder calls,     *)
(* location() and read(), run against a small filesystem.                  *)
(*                                                                         *)
(* A path is the string format!("{}/{}", directory, filename).  A file is  *)
(* a record: whether the path exists, whether File::open succeeds on it,   *)
(* and its text.  Values of T are strings; serde_json's text for a value   *)
(* is a pair <<layout, value>>, so that encoding is not the identity and   *)
(* decoding can fail.                                                      *)
(***************************************************************************)
EXTENDS Integers, Sequences, FiniteSets, TLC

\* Longest directory list the builder is driven to.
MaxDirs == 2

\* The filename given to ConfigFile::new.
filename == "f"

\* Strings passed to directory(); "" is a legal String argument.
Dirs == {"", "a", "b"}

\* Values of T.  Serializing "unenc" fails (a Serialize impl may return an
\* error, e.g. a map whose keys are not strings).
Values == {"v1", "v2", "unenc"}
Encodable == {"v1", "v2"}

\* Option<T> / Option<String> / Result<..> as records of one shape each.
None == [some |-> FALSE, value |-> ""]
Some(v) == [some |-> TRUE, value |-> v]

Ok(v) == [kind |-> "Ok", value |-> v, msg |-> ""]
Err(m) == [kind |-> "Err", value |-> "", msg |-> m]
Panic == [kind |-> "Panic", value |-> "", msg |-> "unwrap on an Err value"]
NotCalled == [kind |-> "NotCalled", value |-> "", msg |-> ""]

\* Messages of the errors the code constructs.
FileWasNotFound == "File was not found"
NoDefaultProvided == "No default config was provided"
FileWasInvalid == "File was invalid"
\* std::io / serde_json errors passed through by the ? operator.
CreateFailed == "os error from File::create"
EncodeFailed == "serde_json error from to_string_pretty"

\* format!("{}/{}", directory, self.filename)
JoinPath(directory) == directory \o "/" \o filename

Paths == {JoinPath(d) : d \in Dirs}

\* ---- the codec (serde_json) ----
Pretty(v) == <<"pretty", v>>
Compact(v) == <<"compact", v>>
Garbage == <<"raw", "garbage">>
Empty == <<"raw", "">>
Partial == <<"raw", "partial">>

\* serde_json::to_string_pretty(config)
to_string_pretty(v) == IF v \in Encodable THEN Ok(Pretty(v)) ELSE Err(EncodeFailed)

\* serde_json::from_str(text): both layouts of a value parse to it,
\* anything else is a syntax error.
from_str(text) ==
    IF text[1] \in {"pretty", "compact"} /\ text[2] \in Encodable
    THEN Ok(text[2])
    ELSE Err("serde_json error from from_str")

\* ---- the filesystem ----
Absent == [exists |-> FALSE, openable |-> FALSE, text |-> Empty]
FileOf(text, openable) == [exists |-> TRUE, openable |-> openable, text |-> text]

\* States a candidate path can be in before the program runs.
InitialFiles ==
    {Absent, FileOf(Pretty("v1"), TRUE), FileOf(Compact("v2"), TRUE),
     FileOf(Garbage, TRUE), FileOf(Pretty("v1"), FALSE)}

\* Path::new(&filepath).exists()
PathExists(fsys, p) == fsys[p].exists

\* File::open(&path) succeeds
CanOpen(fsys, p) == fsys[p].exists /\ fsys[p].openable

VARIABLES
    directories,        \* self.directories
    default_config,     \* self.default_config
    create_if_missing,  \* self.create_if_missing
    fs,                 \* the filesystem: Paths -> file
    pc,                 \* "build", "located" (location() returned), "done" (read() returned)
    located,            \* what location() returned to the caller
    filepath,           \* the first component of the pair get_file() returns inside read()
    result,             \* what read() returned (or Panic)
    io,                 \* which step of persisting the default failed: "none", "create", "encode", "write"
    fs0                 \* the filesystem when read() was entered

vars == <<directories, default_config, create_if_missing, fs, pc, located, filepath, result, io, fs0>>

\* ---- ConfigFile::location ----
\* The loop of lines 49-56: the first directory whose candidate exists, "" if none.
RECURSIVE ScanDirectories(_, _, _)
ScanDirectories(dirs, fsys, i) ==
    IF i > Len(dirs) THEN ""
    ELSE IF PathExists(fsys, JoinPath(dirs[i])) THEN dirs[i]
    ELSE ScanDirectories(dirs, fsys, i + 1)

\* location() without the create_if_missing test of line 59: a missing file
\* always resolves to the first directory.
location_noFlagCheck(dirs, create, fsys) ==
    LET dir == ScanDirectories(dirs, fsys, 1) IN
    IF dirs # <<>> /\ dir = ""
    THEN Ok(JoinPath(dirs[1]))
    ELSE Ok(JoinPath(dir))

location(dirs, create, fsys) ==
    LET dir == ScanDirectories(dirs, fsys, 1) IN
    IF dirs # <<>> /\ dir = ""
    THEN IF ~create
         THEN Err(FileWasNotFound)
         ELSE Ok(JoinPath(dirs[1]))
    ELSE Ok(JoinPath(dir))

\* ---- ConfigFile::get_file ----
\* The pair (path result, file result); the file result is Ok iff the open succeeded.
get_file(dirs, create, fsys) ==
    LET path == location(dirs, create, fsys) IN
    IF path.kind = "Ok"
    THEN [filepath |-> path, opened |-> CanOpen(fsys, path.value)]
    ELSE [filepath |-> path, opened |-> FALSE]

\* ---- ConfigFile::read_file ----
read_file(file) == from_str(file.text)

\* get_config_from_file() handing the decode error to the caller instead of
\* replacing it by "File was invalid".
get_config_from_file_propagate(file) == read_file(file)

\* ---- ConfigFile::get_config_from_file ----
get_config_from_file(file) ==
    LET file_contents == read_file(file) IN
    IF file_contents.kind = "Ok" THEN Ok(file_contents.value) ELSE Err(FileWasInvalid)

\* File::create(path) succeeded: the file exists and is empty; an existing
\* file keeps its permissions.
Truncated(fsys, p) ==
    [fsys EXCEPT ![p] = FileOf(Empty, IF fsys[p].exists THEN fsys[p].openable ELSE TRUE)]

WithText(fsys, p, text) == [fsys EXCEPT ![p].text = text]

\* get_config_from_default() creating the file under the bare filename
\* (empty prefix) instead of at the path it was given.
get_config_from_default_wrongPath(dc, path, fsys, createOk, writeOk) ==
    LET target == JoinPath("") IN
    IF dc.some
    THEN IF path.some
         THEN IF ~createOk
              THEN [result |-> Err(CreateFailed), fs |-> fsys, io |-> "create"]
              ELSE LET config_json == to_string_pretty(dc.value) IN
                   IF config_json.kind # "Ok"
                   THEN [result |-> Err(EncodeFailed), fs |-> Truncated(fsys, target), io |-> "encode"]
                   ELSE IF ~writeOk
                        THEN [result |-> Panic,
                              fs |-> WithText(Truncated(fsys, target), target, Partial),
                              io |-> "write"]
                        ELSE [result |-> Ok(dc.value),
                              fs |-> WithText(Truncated(fsys, target), target, config_json.value),
                              io |-> "none"]
         ELSE [result |-> Ok(dc.value), fs |-> fsys, io |-> "none"]
    ELSE [result |-> Err(NoDefaultProvided), fs |-> fsys, io |-> "none"]

\* get_config_from_default() calling File::create before it looks at the
\* default: with no default the file is created and left empty.
get_config_from_default_createFirst(dc, path, fsys, createOk, writeOk) ==
    IF path.some /\ ~createOk
    THEN [result |-> Err(CreateFailed), fs |-> fsys, io |-> "create"]
    ELSE LET created == IF path.some THEN Truncated(fsys, path.value) ELSE fsys IN
         IF dc.some
         THEN IF path.some
              THEN LET config_json == to_string_pretty(dc.value) IN
                   IF config_json.kind # "Ok"
                   THEN [result |-> Err(EncodeFailed), fs |-> created, io |-> "encode"]
                   ELSE IF ~writeOk
                        THEN [result |-> Panic, fs |-> WithText(created, path.value, Partial), io |-> "write"]
                        ELSE [result |-> Ok(dc.value),
                              fs |-> WithText(created, path.value, config_json.value),
                              io |-> "none"]
              ELSE [result |-> Ok(dc.value), fs |-> fsys, io |-> "none"]
         ELSE [result |-> Err(NoDefaultProvided), fs |-> created, io |-> "none"]

\* ---- ConfigFile::get_config_from_default ----
\* path is filepath.ok(); createOk / writeOk are the outcomes of File::create
\* and write_all, which the environment decides.
get_config_from_default(dc, path, fsys, createOk, writeOk) ==
    IF dc.some
    THEN IF path.some
         THEN IF ~createOk
              THEN [result |-> Err(CreateFailed), fs |-> fsys, io |-> "create"]
              ELSE LET config_json == to_string_pretty(dc.value) IN
                   IF config_json.kind # "Ok"
                   THEN [result |-> Err(EncodeFailed), fs |-> Truncated(fsys, path.value), io |-> "encode"]
                   ELSE IF ~writeOk
                        THEN [result |-> Panic,
                              fs |-> WithText(Truncated(fsys, path.value), path.value, Partial),
                              io |-> "write"]
                        ELSE [result |-> Ok(dc.value),
                              fs |-> WithText(Truncated(fsys, path.value), path.value, config_json.value),
                              io |-> "none"]
         ELSE [result |-> Ok(dc.value), fs |-> fsys, io |-> "none"]
    ELSE [result |-> Err(NoDefaultProvided), fs |-> fsys, io |-> "none"]

\* filepath.ok()
ok(r) == IF r.kind = "Ok" THEN Some(r.value) ELSE None

\* ---- ConfigFile::read (its body as a function of the inputs) ----
read(dirs, dc, create, fsys, createOk, writeOk) ==
    LET gf == get_file(dirs, create, fsys) IN
    IF gf.opened
    THEN [result |-> get_config_from_file(fsys[gf.filepath.value]), fs |-> fsys,
          io |-> "none", filepath |-> gf.filepath]
    ELSE LET d == get_config_from_default(dc, ok(gf.filepath), fsys, createOk, writeOk) IN
         [result |-> d.result, fs |-> d.fs, io |-> d.io, filepath |-> gf.filepath]

\* ---- the state machine ----
\* ConfigFile::new(filename), on any filesystem.
Init ==
    /\ directories = <<>>
    /\ default_config = None
    /\ create_if_missing = FALSE
    /\ fs \in [Paths -> InitialFiles]
    /\ pc = "build"
    /\ located = NotCalled
    /\ filepath = NotCalled
    /\ result = NotCalled
    /\ io = "none"
    /\ fs0 = fs

directory(d) ==
    /\ pc = "build"
    /\ Len(directories) < MaxDirs
    /\ directories' = Append(directories, d)
    /\ UNCHANGED <<default_config, create_if_missing, fs, pc, located, filepath, result, io, fs0>>

default(v) ==
    /\ pc = "build"
    /\ default_config' = Some(v)
    /\ UNCHANGED <<directories, create_if_missing, fs, pc, located, filepath, result, io, fs0>>

create_file_if_not_found ==
    /\ pc = "build"
    /\ create_if_missing' = TRUE
    /\ UNCHANGED <<directories, default_config, fs, pc, located, filepath, result, io, fs0>>

\* The caller invokes location() on the configured value.
LocationCall ==
    /\ pc = "build"
    /\ located' = location(directories, create_if_missing, fs)
    /\ pc' = "located"
    /\ UNCHANGED <<directories, default_config, create_if_missing, fs, filepath, result, io, fs0>>

\* The caller invokes read(), which consumes the value.
ReadCall ==
    /\ pc \in {"build", "located"}
    /\ \E createOk \in BOOLEAN, writeOk \in BOOLEAN :
          LET r == read(directories, default_config, create_if_missing, fs, createOk, writeOk) IN
          /\ result' = r.result
          /\ fs' = r.fs
          /\ io' = r.io
          /\ filepath' = r.filepath
    /\ fs0' = fs
    /\ pc' = "done"
    /\ UNCHANGED <<directories, default_config, create_if_missing, located>>

Next ==
    \/ \E d \in Dirs : directory(d)
    \/ \E v \in Values : default(v)
    \/ create_file_if_not_found
    \/ LocationCall
    \/ ReadCall

Spec == Init /\ [][Next]_vars

TypeOK ==
    /\ pc \in {"build", "located", "done"}
    /\ Len(directories) <= MaxDirs
    /\ create_if_missing \in BOOLEAN
    /\ io \in {"none", "create", "encode", "write"}

\* ---- vocabulary of the properties ----
\* The candidate path of the i-th listed directory.
Candidate(i) == JoinPath(directories[i])

\* No listed directory holds a file named filename in filesystem fsys.
NoCandidateExists(fsys) == \A i \in 1..Len(directories) : ~fsys[Candidate(i)].exists

\* Directory i is the earliest listed directory whose candidate exists in fsys.
FirstExisting(fsys, i) ==
    /\ fsys[Candidate(i)].exists
    /\ \A j \in 1..(i - 1) : ~fsys[Candidate(j)].exists

\* The file at p can be opened and its text decodes.
ValidFile(fsys, p) == CanOpen(fsys, p) /\ from_str(fsys[p].text).kind = "Ok"

\* The file at p can be opened but its text does not decode.
CorruptFile(fsys, p) == CanOpen(fsys, p) /\ from_str(fsys[p].text).kind # "Ok"

\* No path that was absent before read() exists after it.
NoFileCreated == \A p \in Paths : ~fs0[p].exists => ~fs[p].exists

\* C1: once read() has returned, if directory i is the first listed directory
\* that contains the file and that file is valid, the result is Ok with the
\* decoded contents of that file (whatever the later directories, the flag
\* and the default are).
C1_FoundFilePrecedence ==
    pc = "done" =>
        \A i \in 1..Len(directories) :
            (FirstExisting(fs0, i) /\ ValidFile(fs0, Candidate(i)))
                => result = Ok(fs0[Candidate(i)].text[2])

C3_DefaultFallback ==
    (pc = "done" /\ NoCandidateExists(fs0) /\ default_config.some)
        => result = Ok(default_config.value)

C5_NoDefaultFailure_Original ==
    (pc = "done" /\ NoCandidateExists(fs0) /\ ~default_config.some)
        => /\ result = Err(NoDefaultProvided)
           /\ NoFileCreated

\* C5 amended: the same, provided that when the list is empty the
\* empty-prefix path "/" + filename holds no file that can be opened.
C5_NoDefaultFailure ==
    (/\ pc = "done"
     /\ NoCandidateExists(fs0)
     /\ (directories = <<>> => ~CanOpen(fs0, JoinPath("")))
     /\ ~default_config.some)
    => /\ result = Err(NoDefaultProvided)
       /\ NoFileCreated

C5_Witness ==
    /\ pc = "done"
    /\ directories # <<>>
    /\ NoCandidateExists(fs0)
    /\ create_if_missing
    /\ ~default_config.some
    /\ filepath.kind = "Ok"

\* C6: once location() has returned, a non-empty list with no candidate
\* existing and the flag unset gives the "File was not found" error, and an
\* empty list gives Ok("/" + filename).
C6_NoCreateNoMatch ==
    pc = "located" =>
        /\ (directories # <<>> /\ NoCandidateExists(fs) /\ ~create_if_missing)
               => located = Err(FileWasNotFound)
        /\ directories = <<>> => located = Ok("/" \o filename)

C6_Witness ==
    /\ pc = "located"
    /\ Len(directories) = 2
    /\ NoCandidateExists(fs)
    /\ ~create_if_missing
    /\ located.kind = "Err"

\* C7: once location() has returned, if some listed directory's candidate
\* exists the result is Ok with the candidate of the earliest such directory.
C7_FirstMatch ==
    pc = "located" =>
        \A i \in 1..Len(directories) :
            FirstExisting(fs, i) => located = Ok(Candidate(i))

\* C8: once read() has returned, every path whose file changed is the path
\* location() resolved, no file that existed is gone, and if the resolved
\* file opened and decoded the filesystem is what it was.
C8_SideEffectFrame ==
    pc = "done" =>
        LET lp == location(directories, create_if_missing, fs0) IN
        /\ \A p \in Paths : fs[p] # fs0[p] => (lp.kind = "Ok" /\ p = lp.value)
        /\ \A p \in Paths : fs0[p].exists => fs[p].exists
        /\ (lp.kind = "Ok" /\ ValidFile(fs0, lp.value)) => fs = fs0

C8_Witness ==
    /\ pc = "done"
    /\ fs # fs0
    /\ Len(directories) = 2
    /\ \E p \in Paths : p # filepath.value /\ fs0[p].exists

\* C9: once read() has returned, if a default is configured and persisting it
\* failed (create, encode or write), the result is still Ok(default).
C9_BestEffortPersistence ==
    (pc = "done" /\ default_config.some /\ io \in {"create", "encode", "write"})
        => result = Ok(default_config.value)

\* C10: once read() has returned with the flag unset, the filesystem is what
\* it was when read() was entered.
C10_NoWriteWithoutFlag ==
    (pc = "done" /\ ~create_if_missing) => fs = fs0
====
